---- MODULE Spec2Model ----
(***************************************************************************)
(* Model of loggergo's context-attribute handler                           *)
(* (CustomContextAttributeHandler, context_handler.go).                    *)
(*                                                                         *)
(* Go values are records [t |-> dynamic type, v |-> payload].  A context   *)
(* is nil, a chain of context.WithValue bindings over context.Background,  *)
(* or a caller-supplied implementation whose Value method panics.  The     *)
(* wrapped slog.Handler is an external collaborator: it is described by    *)
(* what its Handle does (returns nil, returns an error, panics, or is a    *)
(* nil interface), by its minimum level, and by the WithAttrs/WithGroup    *)
(* operations already bound to it.                                         *)
(***************************************************************************)
EXTENDS Integers, Sequences, FiniteSets, TLC

\* ------------------------------------------------------------------ bounds
MaxKeys == 2
MaxBind == 1
MaxHandlers == 3
MaxGoroutines == 2
MaxIterations == 2
MaxCleanups == 2
MaxShutdowns == 2

\* ------------------------------------------------------------- Go values
NilValue == [t |-> "nil", v |-> ""]
StrValue == [t |-> "string", v |-> "req-1"]
IntValue == [t |-> "int", v |-> "42"]
\* a nil pointer stored in an interface: the interface itself is not nil
PtrNilValue == [t |-> "*int", v |-> "nil"]

CtxValues == {NilValue, StrValue, IntValue, PtrNilValue}

DefaultStr == [t |-> "string", v |-> "unknown"]
DefaultInt == [t |-> "int", v |-> "7"]

Defaults == {NilValue, DefaultStr, DefaultInt}

\* Context keys: any comparable value.  Two of them print alike ("a") but
\* have different dynamic types, so they are different keys.
KeyStrA == [t |-> "string", v |-> "a"]
KeyTypedA == [t |-> "ctxKey", v |-> "a"]
KeyStrB == [t |-> "string", v |-> "b"]

Keys == {KeyStrA, KeyTypedA, KeyStrB}

SeqsUpTo(S, n) == UNION {[1..m -> S] : m \in 0..n}

KeySets == SeqsUpTo(Keys, MaxKeys)

\* fmt.Sprintf("%v", key): the printed payload, the type is not printed.
Sprintf(key) == IF key.t = "nil" THEN "<nil>" ELSE key.v

\* ----------------------------------------------------------- slog values
SignedInts == {"int", "int8", "int16", "int32", "int64"}
UnsignedInts == {"uint", "uint8", "uint16", "uint32", "uint64", "uintptr"}
Floats == {"float32", "float64"}

\* slog.AnyValue: a slog.Value is a kind and the value Value.Any() gives back.
\* Strings and bools keep their type, numbers are carried as the 64-bit type
\* of their family, every other value is carried unchanged under KindAny.
AnyValue(x) ==
    CASE x.t = "string" -> [kind |-> "String", any |-> x]
      [] x.t = "bool" -> [kind |-> "Bool", any |-> x]
      [] x.t \in SignedInts -> [kind |-> "Int64", any |-> [t |-> "int64", v |-> x.v]]
      [] x.t \in UnsignedInts -> [kind |-> "Uint64", any |-> [t |-> "uint64", v |-> x.v]]
      [] x.t \in Floats -> [kind |-> "Float64", any |-> [t |-> "float64", v |-> x.v]]
      [] OTHER -> [kind |-> "Any", any |-> x]

\* slog.Any(key, value)
SlogAny(key, x) == [key |-> key, value |-> AnyValue(x)]

\* slog.Record: level, message and the ordered attributes.  Record.Add
\* appends one attribute.
RecordAdd(record, attr) == [record EXCEPT !.attrs = Append(@, attr)]

PreAttrA == SlogAny("a", [t |-> "string", v |-> "pre"])
PreAttrZ == SlogAny("z", [t |-> "int64", v |-> "1"])

Records ==
    { [level |-> 0, msg |-> "m", attrs |-> <<>>],
      [level |-> 4, msg |-> "m", attrs |-> <<PreAttrA, PreAttrZ>>] }

\* ---------------------------------------------------------------- contexts
NilCtx == [kind |-> "nil", bindings |-> <<>>]
Background == [kind |-> "chain", bindings |-> <<>>]
PanicCtx == [kind |-> "custom", bindings |-> <<>>]

Bindings == [key : Keys, val : CtxValues]

\* context.WithValue(parent, key, val)
WithValue(ctx, key, val) ==
    [ctx EXCEPT !.bindings = Append(@, [key |-> key, val |-> val])]

\* A key bound in a parent context and bound again in the child.
Rebound ==
    {<<[key |-> k, val |-> v], [key |-> k, val |-> w]>> :
        k \in Keys, v \in CtxValues, w \in CtxValues}

Contexts ==
    {NilCtx, PanicCtx} \cup
    {[kind |-> "chain", bindings |-> b] : b \in SeqsUpTo(Bindings, MaxBind) \cup Rebound}

\* valueCtx.Value: the innermost binding whose key equals the looked-up key
\* (interface equality: same dynamic type and same value), else the parent's;
\* context.Background().Value is nil.
RECURSIVE ChainValue(_, _)
ChainValue(bindings, key) ==
    IF bindings = <<>> THEN NilValue
    ELSE LET n == Len(bindings) IN
         IF bindings[n].key = key THEN bindings[n].val
         ELSE ChainValue(SubSeq(bindings, 1, n - 1), key)

\* ctx.Value(key) raises a fault on a nil interface and on the faulty
\* implementation; otherwise it yields the value.
ValuePanics(ctx) == ctx.kind \in {"nil", "custom"}

CtxValue(ctx, key) == ChainValue(ctx.bindings, key)

\* ------------------------------------------------------ wrapped handlers
NilErr == [tag |-> "nil", cause |-> ""]
SinkErr == [tag |-> "sink", cause |-> "write failed"]

NilHandler == [kind |-> "nil", level |-> 0, bound |-> <<>>]

InnerHandlers ==
    { NilHandler,
      [kind |-> "ok", level |-> 0, bound |-> <<>>],
      [kind |-> "err", level |-> 4, bound |-> <<>>],
      [kind |-> "panic", level |-> 0, bound |-> <<>>] }

StaticAttrs == <<SlogAny("svc", [t |-> "string", v |-> "api"])>>
GroupName == "g"
Levels == {0, 4}

\* ------------------------------------------------------------------ state
VARIABLES
    handlers,   \* the CustomContextAttributeHandler values allocated so far
    heap,       \* backing arrays of the []interface{} key slices
    last,       \* the last completed call: its arguments and its outcome
    faulted,    \* history: the handlers on which a Handle call recovered a panic
    goroutines, \* the goroutines inside Handle on handlers[1]: their locals
    config,     \* globalConfigManager.config
    levelVar,   \* the severity threshold: the value of the process-wide slog.LevelVar
    written,    \* history: the levels stored by Set calls on the accessor
    merged,     \* the last call on the configuration store: its argument and result
    logger,     \* the last Init call: its argument and what it returned
    emitted,    \* the last record logged through the logger: where it arrived
    accessors,  \* the goroutines that use the level accessor: their locals
    validated,  \* the last Config.Validate call: its receiver and its result
    cleanupFuncs, \* globalConfigManager.cleanupFuncs
    cleanupMu,  \* globalConfigManager.cleanupMu: the goroutine that holds it, or 0
    workers,    \* the goroutines that call RegisterCleanup and Shutdown: their frames
    invoked,    \* history: the cleanup functions called so far, in order
    registered, \* history: the number of registrations appended so far
    shutdowns,  \* history: the number of Shutdown calls that acquired cleanupMu
    mu,         \* globalConfigManager.mu: the writer that holds it, or 0, and the readers
    callers,    \* the goroutines that call the configuration store: their locals
    stores      \* history: the configurations that writes to the store were given

handlerVars == <<handlers, heap, last, faulted, goroutines>>
orchVars == <<config, merged, levelVar, written, logger, emitted, accessors>>
cleanupVars == <<cleanupFuncs, cleanupMu, workers, invoked, registered, shutdowns>>
storeVars == <<mu, callers, stores>>
libVars == <<validated, cleanupVars, storeVars>>
otherVars == <<handlerVars, merged, levelVar, written, logger, emitted, accessors,
               validated, cleanupVars>>
vars == <<handlers, heap, last, faulted, goroutines,
          config, merged, levelVar, written, logger, emitted, accessors,
          validated, cleanupFuncs, cleanupMu, workers, invoked, registered, shutdowns,
          mu, callers, stores>>

\* An outcome of a call: whether a panic left the call, the returned error,
\* and the (ctx, record) pairs the wrapped handler's Handle received.
Outcome(panicked, cause, err, calls) ==
    [panicked |-> panicked, cause |-> cause, err |-> err, calls |-> calls]

NoCall ==
    [op |-> "none", h |-> 0, ctx |-> NilCtx, record |-> [level |-> 0, msg |-> "", attrs |-> <<>>],
     level |-> 0, ret |-> 0, enabled |-> FALSE,
     out |-> Outcome(FALSE, "", NilErr, <<>>)]

\* --------------------------------------------------- the decorator node
\* NewCustomContextAttributeHandler: stores the three arguments as given.
\* keys is a slice header: it refers to the caller's backing array.
NewCustomContextAttributeHandler(handler, keys, contextKeysDefault) ==
    [innerHandler |-> handler, keys |-> keys, ContextKeysDefault |-> contextKeysDefault]

\* The elements a handler's key slice currently denotes.
KeysOf(h) == SubSeq(heap[h.keys.arr], 1, h.keys.len)

\* Variant: the nil check is missing.
SubstituteCtxSkipped(ctx) == ctx

\* if ctx == nil { ctx = context.Background() }
SubstituteCtx(ctx) == IF ctx = NilCtx THEN Background ELSE ctx

\* Variant: a missing key always gets the default, a nil default included.
AddKeyPlaceholder(contextKeysDefault, ctx, record, key) ==
    LET val == CtxValue(ctx, key) IN
    IF val = NilValue
    THEN RecordAdd(record, SlogAny(Sprintf(key), contextKeysDefault))
    ELSE RecordAdd(record, SlogAny(Sprintf(key), val))

\* Variant: the value is formatted into a string before it is attached.
AddKeyStringified(contextKeysDefault, ctx, record, key) ==
    LET val == CtxValue(ctx, key) IN
    IF val = NilValue
    THEN IF contextKeysDefault # NilValue
         THEN RecordAdd(record, SlogAny(Sprintf(key), contextKeysDefault))
         ELSE record
    ELSE RecordAdd(record, SlogAny(Sprintf(key), [t |-> "string", v |-> val.v]))

\* Variant: a key bound to nil is skipped instead of getting the default.
AddKeyOmitsBoundNil(contextKeysDefault, ctx, record, key) ==
    LET val == CtxValue(ctx, key)
        bound == \E j \in DOMAIN ctx.bindings : ctx.bindings[j].key = key
    IN
    IF val = NilValue
    THEN IF contextKeysDefault # NilValue /\ ~bound
         THEN RecordAdd(record, SlogAny(Sprintf(key), contextKeysDefault))
         ELSE record
    ELSE RecordAdd(record, SlogAny(Sprintf(key), val))

\* Variant: the attribute replaces the record's attributes.
AddKeyOverwrites(contextKeysDefault, ctx, record, key) ==
    LET val == CtxValue(ctx, key) IN
    IF val = NilValue
    THEN IF contextKeysDefault # NilValue
         THEN [record EXCEPT !.attrs = <<SlogAny(Sprintf(key), contextKeysDefault)>>]
         ELSE record
    ELSE [record EXCEPT !.attrs = <<SlogAny(Sprintf(key), val)>>]

\* One iteration of the loop over h.keys.
AddKey(contextKeysDefault, ctx, record, key) ==
    LET val == CtxValue(ctx, key) IN
    IF val = NilValue
    THEN IF contextKeysDefault # NilValue
         THEN RecordAdd(record, SlogAny(Sprintf(key), contextKeysDefault))
         ELSE record
    ELSE RecordAdd(record, SlogAny(Sprintf(key), val))

\* Variant: the keys are visited from the last to the first.
RECURSIVE AddContextAttrsBackwards(_, _, _, _)
AddContextAttrsBackwards(keys, contextKeysDefault, ctx, record) ==
    IF keys = <<>> THEN record
    ELSE AddContextAttrsBackwards(SubSeq(keys, 1, Len(keys) - 1), contextKeysDefault, ctx,
                                  AddKey(contextKeysDefault, ctx, record, keys[Len(keys)]))

\* for _, key := range h.keys { ... }
RECURSIVE AddContextAttrs(_, _, _, _)
AddContextAttrs(keys, contextKeysDefault, ctx, record) ==
    IF keys = <<>> THEN record
    ELSE AddContextAttrs(Tail(keys), contextKeysDefault, ctx,
                         AddKey(contextKeysDefault, ctx, record, Head(keys)))

\* Variant: a call through a nil wrapped handler does nothing and returns nil.
InnerHandleSkipsNil(inner, ctx, record) ==
    LET call == <<[ctx |-> ctx, record |-> record]>> IN
    CASE inner.kind = "ok" -> Outcome(FALSE, "", NilErr, call)
      [] inner.kind = "err" -> Outcome(FALSE, "", SinkErr, call)
      [] inner.kind = "panic" -> Outcome(TRUE, "sink fault", NilErr, call)
      [] OTHER -> Outcome(FALSE, "", NilErr, <<>>)

\* h.innerHandler.Handle(ctx, record): what the wrapped handler does with it.
\* A nil interface faults before anything is delivered.
InnerHandle(inner, ctx, record) ==
    LET call == <<[ctx |-> ctx, record |-> record]>> IN
    CASE inner.kind = "ok" -> Outcome(FALSE, "", NilErr, call)
      [] inner.kind = "err" -> Outcome(FALSE, "", SinkErr, call)
      [] inner.kind = "panic" -> Outcome(TRUE, "sink fault", NilErr, call)
      [] OTHER -> Outcome(TRUE, "nil pointer dereference", NilErr, <<>>)

\* Variant: no recovery, the panic goes on to the caller.
RecoverRethrows(out) == out

\* The deferred function: a recovered panic becomes the returned error.
Recover(out) ==
    IF out.panicked
    THEN Outcome(FALSE, "", [tag |-> "panic in Handle", cause |-> out.cause], out.calls)
    ELSE out

\* Variant: the wrapped handler's error is wrapped before it is returned.
HandleWrapsError(h, ctx, record) ==
    LET c == SubstituteCtx(ctx)
        keys == KeysOf(h)
        body == IF keys # <<>> /\ ValuePanics(c)
                THEN Outcome(TRUE, "ctx.Value fault", NilErr, <<>>)
                ELSE InnerHandle(h.innerHandler, c,
                                 AddContextAttrs(keys, h.ContextKeysDefault, c, record))
        out == Recover(body)
    IN  IF out.err = NilErr THEN out
        ELSE [out EXCEPT !.err = [tag |-> "handle failed", cause |-> out.err.cause]]

\* CustomContextAttributeHandler.Handle
Handle(h, ctx, record) ==
    LET c == SubstituteCtx(ctx)
        keys == KeysOf(h)
        body == IF keys # <<>> /\ ValuePanics(c)
                THEN Outcome(TRUE, "ctx.Value fault", NilErr, <<>>)
                ELSE InnerHandle(h.innerHandler, c,
                                 AddContextAttrs(keys, h.ContextKeysDefault, c, record))
    IN  Recover(body)

\* CustomContextAttributeHandler.Enabled: the wrapped handler's answer.
InnerEnabled(inner, level) == level >= inner.level

Enabled(h, ctx, level) ==
    IF h.innerHandler.kind = "nil"
    THEN [out |-> Outcome(TRUE, "nil pointer dereference", NilErr, <<>>), enabled |-> FALSE]
    ELSE [out |-> Outcome(FALSE, "", NilErr, <<>>), enabled |-> InnerEnabled(h.innerHandler, level)]

\* The wrapped handler's WithAttrs / WithGroup: a new handler value that has
\* the attributes / the group bound.
InnerWithAttrs(inner, attrs) ==
    [inner EXCEPT !.bound = Append(@, [op |-> "attrs", attrs |-> attrs, name |-> ""])]

InnerWithGroup(inner, name) ==
    [inner EXCEPT !.bound = Append(@, [op |-> "group", attrs |-> <<>>, name |-> name])]

\* CustomContextAttributeHandler.WithAttrs / WithGroup
WithAttrs(h, attrs) ==
    NewCustomContextAttributeHandler(InnerWithAttrs(h.innerHandler, attrs), h.keys,
                                     h.ContextKeysDefault)

\* Variant: the derived handler is built without the default.
WithGroupDropsDefault(h, name) ==
    NewCustomContextAttributeHandler(InnerWithGroup(h.innerHandler, name), h.keys, NilValue)

WithGroup(h, name) ==
    NewCustomContextAttributeHandler(InnerWithGroup(h.innerHandler, name), h.keys,
                                     h.ContextKeysDefault)

\* Variant: the receiver itself is re-pointed at the new wrapped handler.
DeriveInPlace(hs, i, node) == Append([hs EXCEPT ![i] = node], node)

\* The handler values after a WithAttrs / WithGroup on handlers[i] returned
\* node: the receiver is left alone, the result is a new value.
Derive(hs, i, node) == Append(hs, node)

\* Variant: a handler that recovered a panic drops its wrapped handler.
AfterHandleDisables(hs, i, out) ==
    IF out.err.tag = "panic in Handle"
    THEN [hs EXCEPT ![i].innerHandler = NilHandler]
    ELSE hs

\* The handler values after a Handle call on handlers[i]: Handle assigns to
\* no field of h, and the deferred function only sets the returned error.
AfterHandle(hs, i, out) == hs

\* ------------------------------------------------------ the configuration
\* slog.Level values, and a slog.Leveler: the nil interface, a level, or a
\* nil *slog.LevelVar held in a non-nil interface.
LevelDebug == -4
LevelInfo == 0
LevelWarn == 4
LevelError == 8

NilLeveler == [kind |-> "nil", v |-> 0]
NilLevelVar == [kind |-> "*LevelVar(nil)", v |-> 0]
Leveler(l) == [kind |-> "Level", v |-> l]

\* types.Config{}: every field at its zero value.
ZeroConfig ==
    [Level |-> NilLeveler, Format |-> "", DevMode |-> FALSE, DevFlavor |-> "",
     OutputStream |-> "nil", OtelTracingEnabled |-> FALSE, OtelLoggerName |-> "",
     Output |-> "", OtelServiceName |-> "", SetAsDefault |-> FALSE,
     ContextKeys |-> <<>>, ContextKeysDefault |-> NilValue]

\* InitConfig: the defaults it stores in the global configuration.
InitConfig ==
    [Level |-> Leveler(LevelInfo), Format |-> "json", DevMode |-> FALSE,
     DevFlavor |-> "tint", OutputStream |-> "stdout", OtelTracingEnabled |-> TRUE,
     OtelLoggerName |-> "my/pkg/name", Output |-> "console",
     OtelServiceName |-> "my-service", SetAsDefault |-> TRUE,
     ContextKeys |-> <<>>, ContextKeysDefault |-> NilValue]

\* Variant: a boolean of the override replaces the base only when it is true.
MergeBoolKeepsTrue(base, override) == base \/ override

\* if override.X != libConfig.X { libConfig.X = override.X }
MergeBool(base, override) == IF override # base THEN override ELSE base

\* Variant: the override replaces the stored configuration.
MergeConfigReplaces(libConfig, override) == override

\* MergeConfig: the configuration it stores and returns, libConfig being the
\* stored one.
MergeConfig(libConfig, override) ==
    [Format |-> IF override.Format # "" THEN override.Format ELSE libConfig.Format,
     DevFlavor |-> IF override.DevFlavor # "" THEN override.DevFlavor
                   ELSE libConfig.DevFlavor,
     Output |-> IF override.Output # "" THEN override.Output ELSE libConfig.Output,
     Level |-> IF override.Level # NilLeveler THEN override.Level ELSE libConfig.Level,
     OutputStream |-> IF override.OutputStream # "nil" THEN override.OutputStream
                      ELSE libConfig.OutputStream,
     OtelLoggerName |-> IF override.OtelLoggerName # "" THEN override.OtelLoggerName
                        ELSE libConfig.OtelLoggerName,
     OtelServiceName |-> IF override.OtelServiceName # "" THEN override.OtelServiceName
                         ELSE libConfig.OtelServiceName,
     DevMode |-> MergeBool(libConfig.DevMode, override.DevMode),
     OtelTracingEnabled |-> MergeBool(libConfig.OtelTracingEnabled,
                                      override.OtelTracingEnabled),
     SetAsDefault |-> MergeBool(libConfig.SetAsDefault, override.SetAsDefault),
     ContextKeys |-> IF Len(override.ContextKeys) > 0 THEN override.ContextKeys
                     ELSE libConfig.ContextKeys,
     ContextKeysDefault |-> IF override.ContextKeysDefault # NilValue
                            THEN override.ContextKeysDefault
                            ELSE libConfig.ContextKeysDefault]

\* No call on the configuration store yet.
NoStoreCall ==
    [op |-> "none", prev |-> ZeroConfig, override |-> ZeroConfig, ret |-> ZeroConfig]

\* Errors of the initialization: nil, a plain error, *ValidationError with
\* the failed fields in the order Validate appends them, and *InitError.
NoError == [type |-> "nil"]
PlainError(msg) == [type |-> "error", msg |-> msg]
ValidationError(fields) == [type |-> "*ValidationError", Errors |-> fields]
InitError(stage, cause) == [type |-> "*InitError", Stage |-> stage, Cause |-> cause]

\* Variant: the cause is not handed out.
UnwrapNothing(e) == NoError

\* InitError.Unwrap
Unwrap(e) == e.Cause

\* Variant: every configuration is valid.
ValidateAcceptsAll(c) == NoError

\* Variant: Validate returns at the first rule that fails.
ValidateStopsAtFirst(c) ==
    IF c.Level = NilLeveler THEN ValidationError(<<"Level">>)
    ELSE IF c.Output = "" THEN ValidationError(<<"Output">>)
    ELSE IF c.Output \in {"otel", "fanout"} /\ c.OtelLoggerName = ""
    THEN ValidationError(<<"OtelLoggerName">>)
    ELSE IF c.Output \in {"otel", "fanout"} /\ c.OtelServiceName = ""
    THEN ValidationError(<<"OtelServiceName">>)
    ELSE IF c.ContextKeysDefault # NilValue /\ Len(c.ContextKeys) = 0
    THEN ValidationError(<<"ContextKeysDefault">>)
    ELSE NoError

\* Config.Validate
Validate(c) ==
    LET fieldErrors ==
          (IF c.Level = NilLeveler THEN <<"Level">> ELSE <<>>)
          \o (IF c.Output = "" THEN <<"Output">> ELSE <<>>)
          \o (IF c.Output \in {"otel", "fanout"}
              THEN (IF c.OtelLoggerName = "" THEN <<"OtelLoggerName">> ELSE <<>>)
                   \o (IF c.OtelServiceName = "" THEN <<"OtelServiceName">> ELSE <<>>)
              ELSE <<>>)
          \o (IF c.ContextKeysDefault # NilValue /\ Len(c.ContextKeys) = 0
              THEN <<"ContextKeysDefault">> ELSE <<>>)
    IN  IF Len(fieldErrors) > 0 THEN ValidationError(fieldErrors) ELSE NoError

\* No Validate call yet.
NoValidate == [op |-> "none", arg |-> ZeroConfig, err |-> NoError]

\* ------------------------------------------------------- the base handlers
\* The Leveler that is the process-wide level cell itself, and Leveler.Level()
\* when the cell holds the value cell.
TheLevelVar == [kind |-> "*LevelVar", v |-> 0]
LevelOf(leveler, cell) == IF leveler = TheLevelVar THEN cell ELSE leveler.v

\* A base handler: its kind, the Leveler it filters by (NilLeveler: none), the
\* stream it writes to, whether it is wrapped by the tracing handler, and
\* the handlers a fan-out distributes to.
BaseHandler(kind, level, sink) ==
    [kind |-> kind, level |-> level, sink |-> sink, tracing |-> FALSE, subs |-> <<>>]

NoBaseHandler == BaseHandler("nil", NilLeveler, "")

\* What a handler factory returns: (handler, error), or a panic.
Built(handler) == [handler |-> handler, err |-> NoError, panicked |-> FALSE]
NotBuilt(err) == [handler |-> NoBaseHandler, err |-> err, panicked |-> FALSE]
BuildPanics == [handler |-> NoBaseHandler, err |-> NoError, panicked |-> TRUE]

\* Variant: Level() on a nil *slog.LevelVar gives a level instead of a fault.
LevelNeverPanics(leveler) == FALSE

\* Leveler.Level() dereferences its receiver: a nil *slog.LevelVar faults.
LevelPanics(leveler) == leveler = NilLevelVar

\* minLevel: lib.GetConfig().Level.Level(), taken when the processor is built.
OtelMinLevel(cfg) == Leveler(cfg.Level.v)

\* SetupOtelFormat: env.exporter tells whether the resource and the stdout
\* exporter can be created; the records go to the exporter's stdout.
SetupOtelFormat(cfg, env) ==
    IF ~env.exporter THEN NotBuilt(PlainError("stdoutlog"))
    ELSE IF LevelPanics(cfg.Level) THEN BuildPanics
    ELSE Built(BaseHandler("otelslog", OtelMinLevel(cfg), "stdout"))

\* SetupPlainFormat
SetupPlainFormat(cfg, opts, cell) ==
    IF cfg.DevMode
    THEN IF cfg.DevFlavor = "slogor"
         THEN Built(BaseHandler("slogor", Leveler(LevelOf(opts.Level, cell)),
                                cfg.OutputStream))
         ELSE IF cfg.DevFlavor = "devslog"
         THEN Built(BaseHandler("devslog", opts.Level, cfg.OutputStream))
         ELSE Built(BaseHandler("tint", opts.Level, cfg.OutputStream))
    ELSE Built(BaseHandler("text", opts.Level, cfg.OutputStream))

\* OtelMode: env.otel tells whether otellogs.Init succeeds; the handler has
\* no level filter.
OtelMode(cfg, env) ==
    IF ~env.otel THEN NotBuilt(PlainError("otellogs.Init"))
    ELSE Built(BaseHandler("otelslog", NilLeveler, "otel"))

\* Variant: the console handler is the telemetry handler again.
ConsoleModeIsOtelMode(cfg, opts, cell, env) == OtelMode(cfg, env)

\* ConsoleMode
ConsoleMode(cfg, opts, cell, env) ==
    IF cfg.Format = "otel" THEN SetupOtelFormat(cfg, env)
    ELSE LET handler == IF cfg.Format = "json"
                        THEN BaseHandler("json", opts.Level, cfg.OutputStream)
                        ELSE IF cfg.Format = "text"
                        THEN SetupPlainFormat(cfg, opts, cell).handler
                        ELSE NoBaseHandler
         IN  Built(IF cfg.OtelTracingEnabled THEN [handler EXCEPT !.tracing = TRUE]
                   ELSE handler)

\* slogmulti.Fanout
Fanout(a, b) ==
    [kind |-> "fanout", level |-> NilLeveler, sink |-> "", tracing |-> FALSE,
     subs |-> <<a, b>>]

\* Enabled of a base handler: the otelslog bridge accepts every level, the
\* others compare with their Leveler.
LeafEnabled(h, level, cell) ==
    IF h.kind = "otelslog" THEN TRUE ELSE level >= LevelOf(h.level, cell)

BaseEnabled(h, level, cell) ==
    IF h.kind = "fanout"
    THEN \E i \in DOMAIN h.subs : LeafEnabled(h.subs[i], level, cell)
    ELSE LeafEnabled(h, level, cell)

\* Handle of a base handler: the streams the record is written to.  The
\* OTEL format drops it in levelFilterProcessor.OnEmit when sev < minLevel.
LeafHandle(h, level, cell) ==
    IF h.kind = "otelslog" /\ h.level # NilLeveler /\ ~(level >= LevelOf(h.level, cell))
    THEN {}
    ELSE {h.sink}

BaseHandle(h, level, cell) ==
    IF h.kind = "fanout"
    THEN UNION { IF LeafEnabled(h.subs[i], level, cell)
                 THEN LeafHandle(h.subs[i], level, cell) ELSE {} : i \in DOMAIN h.subs }
    ELSE LeafHandle(h, level, cell)

\* logger.Log(ctx, level, ...): the record is built and handled when the
\* handler is enabled for the level; the decorator's Enabled and Handle
\* both end in the wrapped handler's.
Emits(h, level, cell) ==
    IF BaseEnabled(h.innerHandler, level, cell)
    THEN BaseHandle(h.innerHandler, level, cell)
    ELSE {}

\* ------------------------------------------------------- the orchestrator
\* What Init hands back: the stored configuration, the error, the handler of
\* the logger (NoHandler: a nil logger), the value of the level cell, whether
\* the logger was installed as the default, and whether the telemetry
\* handler could not be built.
NoHandler == NewCustomContextAttributeHandler(NoBaseHandler, <<>>, NilValue)

InitOk(cfg, base, cell, otelFailed) ==
    [cfg |-> cfg, err |-> NoError,
     handler |-> NewCustomContextAttributeHandler(base, cfg.ContextKeys,
                                                  cfg.ContextKeysDefault),
     cell |-> cell, installed |-> cfg.SetAsDefault, otelFailed |-> otelFailed,
     panicked |-> FALSE]

InitFails(cfg, stage, cause, cell, otelFailed) ==
    [cfg |-> cfg, err |-> InitError(stage, cause), handler |-> NoHandler, cell |-> cell,
     installed |-> FALSE, otelFailed |-> otelFailed, panicked |-> FALSE]

InitPanics(cfg, cell) ==
    [cfg |-> cfg, err |-> NoError, handler |-> NoHandler, cell |-> cell,
     installed |-> FALSE, otelFailed |-> FALSE, panicked |-> TRUE]

\* Variant: no failure boundary around the initialization.
InitRecoverNothing(out) == out

\* The failure boundary of the initialization: a fault becomes an error
\* tagged "panic_recovery".
InitRecover(out) ==
    IF out.panicked
    THEN [out EXCEPT !.panicked = FALSE,
                     !.err = InitError("panic_recovery", PlainError("panic during initialization"))]
    ELSE out

\* Init(ctx, config): defaults, merge, validation, the level cell, the base
\* handler with the console fallback, the decorator, the logger; cell is the
\* level cell's value before the call.
LoggergoInit(override, env, cell) ==
    LET cfg == MergeConfig(InitConfig, override)
        invalid == Validate(cfg)
        threshold == cfg.Level.v
        opts == [Level |-> TheLevelVar, AddSource |-> cfg.Level = Leveler(LevelDebug)]
        console == ConsoleMode(cfg, opts, threshold, env)
        otel == OtelMode(cfg, env)
        otelFailed == cfg.Output \in {"otel", "fanout"} /\ otel.err # NoError
        consoleFirst == cfg.Output # "otel"
        body ==
          IF invalid # NoError THEN InitFails(cfg, "validation", invalid, cell, FALSE)
          ELSE IF LevelPanics(cfg.Level) THEN InitPanics(cfg, cell)
          ELSE IF cfg.Output = "otel" /\ ~otelFailed
          THEN InitOk(cfg, otel.handler, threshold, FALSE)
          ELSE IF console.panicked THEN InitPanics(cfg, threshold)
          ELSE IF console.err # NoError
          THEN InitFails(cfg, "handler_creation", console.err, threshold,
                         otelFailed /\ ~consoleFirst)
          ELSE IF cfg.Output = "fanout" /\ ~otelFailed
          THEN InitOk(cfg, Fanout(console.handler, otel.handler), threshold, FALSE)
          ELSE InitOk(cfg, console.handler, threshold, otelFailed)
    IN  InitRecover(body)

\* No Init call yet; no record logged yet.
NoLogger ==
    [op |-> "none", arg |-> ZeroConfig, err |-> NoError, handler |-> NoHandler, installed |-> FALSE, otelFailed |-> FALSE,
     panicked |-> FALSE]

NoLog == [op |-> "none", level |-> LevelInfo, sinks |-> {}]

\* ----------------------------------------------------- the level accessor
\* Variant: a Set that stores only the low byte of the new level.
StoreLowByte(old, new) == (old \div 256) * 256 + (new % 256)

\* LevelVar.Set / LevelVar.Level: one atomic store, one atomic load.
Store(old, new) == new
Load(cell) == cell

\* levels[j%len(levels)] of the tests' goroutines.
LevelAt(j) == <<LevelDebug, LevelInfo, LevelWarn, LevelError>>[(j % 4) + 1]

\* A goroutine of the tests: about to Set in iteration j, having read cur.
NotStarted == [pc |-> "set", j |-> 0, cur |-> LevelInfo]

\* ---------------------------------------------------------------- actions
\* The caller's position: last.op = "none" between two calls; a call
\* completes with its arguments and outcome in last, and Return goes on to
\* the next call.
Idle == last.op = "none"

\* The calls made on composed handlers: no context, a faulty one, an empty
\* one, and one that binds a single key to a string; a record that already
\* has attributes.
ComposeContexts ==
    {NilCtx, PanicCtx, Background} \cup {WithValue(Background, k, StrValue) : k \in Keys}

\* The key sets of composed handlers: no key twice.
ComposeKeySets == {ks \in KeySets : \A i, j \in DOMAIN ks : ks[i] = ks[j] => i = j}

ComposeRecord == [level |-> 4, msg |-> "m", attrs |-> <<PreAttrA, PreAttrZ>>]

\* The goroutines that log, and the record each of them logs: its own number
\* is an attribute of it.
Goroutines == 1..MaxGoroutines

RecordOf(g) ==
    [level |-> 4, msg |-> "test message",
     attrs |-> <<SlogAny("goroutine", [t |-> "int", v |-> ToString(g)])>>]

\* The contexts a goroutine logs with: none, a faulty one, and its own, which
\* binds a key to the goroutine's number.
OwnCtx(g) == WithValue(Background, KeyStrA, [t |-> "string", v |-> ToString(g)])
ContextsOf(g) == {NilCtx, PanicCtx, OwnCtx(g)}

\* The locals of a goroutine: the arguments ctx and record of its Handle call,
\* the context in use, the next index of the range loop and the result.
NotInHandle ==
    [pc |-> "idle", arg |-> NilCtx, ctx |-> NilCtx, record |-> NoCall.record, k |-> 0,
     out |-> Outcome(FALSE, "", NilErr, <<>>)]

\* Variant: the record is one value that all goroutines add to.
SetRecordShared(gs, g, record) == [x \in DOMAIN gs |-> [gs[x] EXCEPT !.record = record]]

\* record.Add on the parameter record, which Handle received by value.
SetRecord(gs, g, record) == [gs EXCEPT ![g].record = record]

\* ------------------------------------------- the store under concurrency
\* The assignment of a Config value copies the struct piece by piece; the
\* model copies it in two pieces.
FirstPiece ==
    {"Level", "Format", "DevMode", "DevFlavor", "OutputStream", "OtelTracingEnabled"}
RestPiece == DOMAIN ZeroConfig \ FirstPiece
CopyPiece(dst, src, piece) ==
    [f \in DOMAIN dst |-> IF f \in piece THEN src[f] ELSE dst[f]]

\* Variant: RLock does not wait for the writer.
CanRLockAlways(m) == TRUE

\* sync.RWMutex: RLock waits while a writer holds the lock, Lock waits while
\* a writer or a reader holds it.
CanRLock(m) == m.writer = 0
CanLock(m) == m.writer = 0 /\ m.readers = {}

\* A goroutine's call on the store: pc is "idle" (no call yet), "rlock",
\* "read1", "read2", "lock", "write1", "write2" or "done"; libConfig is the
\* copy that GetConfig makes, value the configuration to be written, ret the
\* configuration returned.
NoCaller ==
    [op |-> "none", pc |-> "idle", arg |-> ZeroConfig, libConfig |-> ZeroConfig,
     value |-> ZeroConfig, ret |-> ZeroConfig]

\* --------------------------------------------------- the cleanup registry
\* A cleanup function: what it does when called ("ok" returns nil, "err"
\* returns an error, "register" calls RegisterCleanup, "shutdown" calls
\* Shutdown, both then return nil); id is its place in the order of
\* registration and epoch the number of Shutdown calls before it.
Cleanup(id, kind, epoch) == [id |-> id, kind |-> kind, epoch |-> epoch]

\* A frame of RegisterCleanup or Shutdown on a goroutine's stack: pc is
\* "lock" (before cleanupMu.Lock()), "append", "loop" (at the loop test),
\* "inCleanup" (inside cleanupFuncs[i]()); i is the loop variable, counted
\* from 1, errors the errors collected, seen the length of the registry when
\* the lock was taken, call the number of this Shutdown call.
Frame(op, kind) ==
    [op |-> op, pc |-> "lock", kind |-> kind, i |-> 0, errors |-> <<>>, seen |-> 0,
     call |-> 0]

\* What a completed call returned to a goroutine.
NoReturn == [op |-> "none", call |-> 0, seen |-> 0, err |-> NoError]
NoWorker == [stack |-> <<>>, ret |-> NoReturn]

\* fmt.Errorf("shutdown errors: %v", errors)
ShutdownError(errors) == [type |-> "error", msg |-> "shutdown errors", errors |-> errors]

\* Variant: the loop runs from the first registered function to the last.
CleanupIndexForward(i, n) == n - i + 1

\* The loop variable i runs from the length n of the registry down to 1 and
\* the iteration calls cleanupFuncs[i].
CleanupIndex(i, n) == i

\* Variant: the loop ends at the first error.
AfterCleanupStops(i, err) == IF err # NoError THEN 0 ELSE i - 1

\* The loop variable after an iteration: an error is collected and the loop
\* goes on.
AfterCleanup(i, err) == i - 1

\* Variant: the registry is left as it is.
ClearedNothing(funcs) == funcs

\* globalConfigManager.cleanupFuncs = nil
Cleared(funcs) == <<>>

\* The frame a goroutine is executing, and the calls started so far.
Top(g) == workers[g].stack[Len(workers[g].stack)]
AtPc(g, op, pc) ==
    /\ workers[g].stack # <<>>
    /\ Top(g).op = op
    /\ Top(g).pc = pc
Waiting(op) ==
    Cardinality({g \in Goroutines :
                    /\ workers[g].stack # <<>>
                    /\ workers[g].stack[1].op = op
                    /\ workers[g].stack[1].pc \in {"lock", "append"}})
Push(g, frame) == [workers EXCEPT ![g].stack = Append(@, frame)]
SetTop(w, frame) == [w EXCEPT !.stack = [@ EXCEPT ![Len(@)] = frame]]
Pop(w) == [w EXCEPT !.stack = SubSeq(@, 1, Len(@) - 1)]

Init ==
    /\ handlers = <<>>
    /\ heap = <<>>
    /\ last = NoCall
    /\ faulted = {}
    /\ goroutines = [g \in Goroutines |-> NotInHandle]
    /\ config = ZeroConfig
    /\ merged = NoStoreCall
    /\ levelVar = LevelInfo
    /\ written = {}
    /\ logger = NoLogger
    /\ emitted = NoLog
    /\ accessors = [g \in Goroutines |-> NotStarted]
    /\ validated = NoValidate
    /\ cleanupFuncs = <<>>
    /\ cleanupMu = 0
    /\ workers = [g \in Goroutines |-> NoWorker]
    /\ invoked = <<>>
    /\ registered = 0
    /\ shutdowns = 0
    /\ mu = [writer |-> 0, readers |-> {}]
    /\ callers = [g \in Goroutines |-> NoCaller]
    /\ stores = {}

\* The caller builds a key slice and constructs the decorator.
New(handler, keys, contextKeysDefault) ==
    /\ Idle
    /\ handlers = <<>>
    /\ heap' = Append(heap, keys)
    /\ handlers' = <<NewCustomContextAttributeHandler(
                        handler, [arr |-> Len(heap) + 1, len |-> Len(keys)],
                        contextKeysDefault)>>
    /\ last' = [NoCall EXCEPT !.op = "New", !.ret = 1]
    /\ UNCHANGED <<faulted, goroutines>>
    /\ UNCHANGED <<orchVars, libVars>>

\* Two handlers constructed from the same arguments: calls go to the first,
\* the second is never called.
NewTwin(handler, keys, contextKeysDefault) ==
    /\ Idle
    /\ handlers = <<>>
    /\ heap' = Append(heap, keys)
    /\ LET h == NewCustomContextAttributeHandler(
                    handler, [arr |-> Len(heap) + 1, len |-> Len(keys)], contextKeysDefault)
       IN  handlers' = <<h, h>>
    /\ last' = [NoCall EXCEPT !.op = "New", !.ret = 1]
    /\ UNCHANGED <<faulted, goroutines>>
    /\ UNCHANGED <<orchVars, libVars>>

CallHandle(i, ctx, record) ==
    /\ Idle
    /\ i \in DOMAIN handlers
    /\ LET out == Handle(handlers[i], ctx, record) IN
       /\ last' = [NoCall EXCEPT !.op = "Handle", !.h = i, !.ctx = ctx, !.record = record,
                                 !.out = out]
       /\ handlers' = AfterHandle(handlers, i, out)
       /\ faulted' = IF out.err.tag = "panic in Handle" THEN faulted \cup {i} ELSE faulted
    /\ UNCHANGED <<heap, goroutines>>
    /\ UNCHANGED <<orchVars, libVars>>

CallEnabled(i, ctx, level) ==
    /\ Idle
    /\ i \in DOMAIN handlers
    /\ LET r == Enabled(handlers[i], ctx, level) IN
       last' = [NoCall EXCEPT !.op = "Enabled", !.h = i, !.ctx = ctx, !.level = level,
                              !.out = r.out, !.enabled = r.enabled]
    /\ UNCHANGED <<handlers, heap, faulted, goroutines>>
    /\ UNCHANGED <<orchVars, libVars>>

\* A nil wrapped handler faults inside WithAttrs / WithGroup, which have no
\* recovery of their own: nothing is returned.
CallWithAttrs(i, attrs) ==
    /\ Idle
    /\ i \in DOMAIN handlers
    /\ Len(handlers) < MaxHandlers
    /\ IF handlers[i].innerHandler.kind = "nil"
       THEN /\ last' = [NoCall EXCEPT !.op = "WithAttrs", !.h = i,
                           !.out = Outcome(TRUE, "nil pointer dereference", NilErr, <<>>)]
            /\ UNCHANGED handlers
       ELSE /\ handlers' = Derive(handlers, i, WithAttrs(handlers[i], attrs))
            /\ last' = [NoCall EXCEPT !.op = "WithAttrs", !.h = i, !.ret = Len(handlers) + 1]
    /\ UNCHANGED <<heap, faulted, goroutines>>
    /\ UNCHANGED <<orchVars, libVars>>

CallWithGroup(i, name) ==
    /\ Idle
    /\ i \in DOMAIN handlers
    /\ Len(handlers) < MaxHandlers
    /\ IF handlers[i].innerHandler.kind = "nil"
       THEN /\ last' = [NoCall EXCEPT !.op = "WithGroup", !.h = i,
                           !.out = Outcome(TRUE, "nil pointer dereference", NilErr, <<>>)]
            /\ UNCHANGED handlers
       ELSE /\ handlers' = Derive(handlers, i, WithGroup(handlers[i], name))
            /\ last' = [NoCall EXCEPT !.op = "WithGroup", !.h = i, !.ret = Len(handlers) + 1]
    /\ UNCHANGED <<heap, faulted, goroutines>>
    /\ UNCHANGED <<orchVars, libVars>>

\* A goroutine calls Handle on the shared handler: the deferred function is
\* set up and a nil ctx is replaced.
GoHandle(g, ctx) ==
    /\ handlers # <<>>
    /\ goroutines[g].pc = "idle"
    /\ goroutines' = [goroutines EXCEPT ![g] =
          [NotInHandle EXCEPT !.pc = "loop", !.arg = ctx, !.ctx = SubstituteCtx(ctx),
                              !.record = RecordOf(g), !.k = 1]]
    /\ UNCHANGED <<handlers, heap, last, faulted>>
    /\ UNCHANGED <<orchVars, libVars>>

\* One iteration of the range loop; a panic of ctx.Value ends the call in the
\* deferred function.
GoLoop(g) ==
    LET me == goroutines[g]
        h == handlers[1]
    IN
    /\ me.pc = "loop"
    /\ me.k <= h.keys.len
    /\ IF ValuePanics(me.ctx)
       THEN goroutines' = [goroutines EXCEPT
               ![g].pc = "done",
               ![g].out = Recover(Outcome(TRUE, "ctx.Value fault", NilErr, <<>>))]
       ELSE goroutines' =
               [SetRecord(goroutines, g,
                          AddKey(h.ContextKeysDefault, me.ctx, me.record,
                                 heap[h.keys.arr][me.k]))
                EXCEPT ![g].k = me.k + 1]
    /\ UNCHANGED <<handlers, heap, last, faulted>>
    /\ UNCHANGED <<orchVars, libVars>>

\* return h.innerHandler.Handle(ctx, record)
GoDelegate(g) ==
    LET me == goroutines[g]
        h == handlers[1]
    IN
    /\ me.pc = "loop"
    /\ me.k > h.keys.len
    /\ goroutines' = [goroutines EXCEPT
          ![g].pc = "done",
          ![g].out = Recover(InnerHandle(h.innerHandler, me.ctx, me.record))]
    /\ UNCHANGED <<handlers, heap, last, faulted>>
    /\ UNCHANGED <<orchVars, libVars>>

\* The goroutine goes on to its next iteration.
GoReturn(g) ==
    /\ goroutines[g].pc = "done"
    /\ goroutines' = [goroutines EXCEPT ![g] = NotInHandle]
    /\ UNCHANGED <<handlers, heap, last, faulted>>
    /\ UNCHANGED <<orchVars, libVars>>

\* The caller has looked at the outcome and goes on.
Return ==
    /\ ~Idle
    /\ last' = NoCall
    /\ UNCHANGED <<handlers, heap, faulted, goroutines>>
    /\ UNCHANGED <<orchVars, libVars>>

\* The caller assigns to an element of the key slice it passed to the
\* constructor: keys[j] = key.
CallerSetsKey(j, key) ==
    /\ Idle
    /\ handlers # <<>>
    /\ j \in DOMAIN heap[1]
    /\ heap[1][j] # key
    /\ heap' = [heap EXCEPT ![1][j] = key]
    /\ last' = [NoCall EXCEPT !.op = "SetKey"]
    /\ UNCHANGED <<handlers, faulted, goroutines>>
    /\ UNCHANGED <<orchVars, libVars>>

\* One handler, every context and record.
Next ==
    \/ \E handler \in InnerHandlers, keys \in KeySets, d \in Defaults : New(handler, keys, d)
    \/ \E ctx \in Contexts, record \in Records : CallHandle(1, ctx, record)
    \/ \E ctx \in {NilCtx, Background}, level \in Levels : CallEnabled(1, ctx, level)
    \/ Return

Spec == Init /\ [][Next]_vars

\* Handlers derived through chains of WithAttrs / WithGroup.
NextCompose ==
    \/ \E handler \in InnerHandlers, keys \in ComposeKeySets, d \in Defaults :
          New(handler, keys, d)
    \/ \E i \in 1..MaxHandlers, ctx \in ComposeContexts : CallHandle(i, ctx, ComposeRecord)
    \/ \E i \in 1..MaxHandlers, level \in Levels : CallEnabled(i, Background, level)
    \/ \E i \in 1..MaxHandlers : CallWithAttrs(i, StaticAttrs)
    \/ \E i \in 1..MaxHandlers : CallWithGroup(i, GroupName)
    \/ Return

SpecCompose == Init /\ [][NextCompose]_vars

\* A handler and the handlers derived from it, with a caller that goes on
\* using the key slice it passed to the constructor.
NextKeys ==
    \/ \E keys \in ComposeKeySets, d \in {NilValue, DefaultStr} :
          New([kind |-> "ok", level |-> 0, bound |-> <<>>], keys, d)
    \/ \E j \in 1..MaxKeys, key \in Keys : CallerSetsKey(j, key)
    \/ \E i \in 1..MaxHandlers, ctx \in ComposeContexts : CallHandle(i, ctx, ComposeRecord)
    \/ \E i \in 1..MaxHandlers : CallWithAttrs(i, StaticAttrs)
    \/ \E i \in 1..MaxHandlers : CallWithGroup(i, GroupName)
    \/ Return

SpecKeys == Init /\ [][NextKeys]_vars

\* A handler that is called again and again, next to a twin that is never
\* called.
NextLocal ==
    \/ \E handler \in InnerHandlers, keys \in KeySets, d \in Defaults :
          NewTwin(handler, keys, d)
    \/ \E ctx \in Contexts, record \in Records : CallHandle(1, ctx, record)
    \/ Return

SpecLocal == Init /\ [][NextLocal]_vars

\* Goroutines that call Handle on one shared handler, step by step.
NextConcurrent ==
    \/ \E handler \in InnerHandlers, keys \in ComposeKeySets, d \in {NilValue, DefaultStr} :
          New(handler, keys, d)
    \/ \E g \in Goroutines : \E ctx \in ContextsOf(g) : GoHandle(g, ctx)
    \/ \E g \in Goroutines : GoLoop(g)
    \/ \E g \in Goroutines : GoDelegate(g)
    \/ \E g \in Goroutines : GoReturn(g)

SpecConcurrent == Init /\ [][NextConcurrent]_vars

\* The levels the caller sets and logs at.
SetLevels == {LevelDebug, LevelWarn}
LogLevels == {LevelDebug, LevelInfo, LevelWarn}

\* The configurations handed to Init.  One family varies what selects the
\* base handler: level, format, development flavor, output mode, tracing.
FormatConfigs ==
    { [ZeroConfig EXCEPT !.Level = l, !.Format = f, !.DevMode = dev[1],
                         !.DevFlavor = dev[2], !.OutputStream = "buf",
                         !.OtelTracingEnabled = t, !.Output = o,
                         !.OtelLoggerName = "test-logger",
                         !.OtelServiceName = "test-service"] :
        l \in {NilLeveler, NilLevelVar, Leveler(LevelDebug), Leveler(LevelWarn)},
        f \in {"", "text", "otel"},
        dev \in {<<FALSE, "">>, <<TRUE, "">>, <<TRUE, "slogor">>},
        t \in BOOLEAN,
        o \in {"", "otel", "fanout"} }

\* The other family varies what validation and the defaults look at: fields
\* left unset or set.
UnsetConfigs ==
    { [ZeroConfig EXCEPT !.Level = l, !.OutputStream = "buf",
                         !.OtelTracingEnabled = t, !.OtelLoggerName = names[1],
                         !.OtelServiceName = names[2], !.Output = o, !.SetAsDefault = d,
                         !.ContextKeys = ck[1], !.ContextKeysDefault = ck[2]] :
        l \in {NilLeveler, Leveler(LevelWarn)},
        t \in BOOLEAN,
        names \in {<<"", "">>, <<"test-logger", "test-service">>},
        o \in {"", "otel", "fanout"},
        d \in BOOLEAN,
        ck \in {<<(<<>>), NilValue>>, <<(<<KeyStrA>>), DefaultStr>>, <<(<<>>), DefaultStr>>} }

InitConfigs == FormatConfigs \cup UnsetConfigs

\* The environment: whether telemetry and the stdout exporter can be set up.
Environments == [otel : BOOLEAN, exporter : BOOLEAN]

\* The configuration of the level tests.
LevelTestConfigs ==
    { [ZeroConfig EXCEPT !.Level = Leveler(l), !.Format = "json", !.Output = "console"] :
        l \in {LevelInfo, LevelError} }

\* Init(ctx, config), called once.
CallInit(override, env) ==
    /\ logger.op = "none"
    /\ LET out == LoggergoInit(override, env, levelVar) IN
       /\ config' = out.cfg
       /\ levelVar' = out.cell
       /\ logger' = [op |-> "Init", arg |-> override, err |-> out.err,
                     handler |-> out.handler, installed |-> out.installed,
                     otelFailed |-> out.otelFailed, panicked |-> out.panicked]
    /\ emitted' = NoLog
    /\ UNCHANGED <<merged, written, accessors>>
    /\ UNCHANGED <<handlerVars, libVars>>

\* GetLogLevelAccessor().Set(l) by the caller of Init.
LevelSet(l) ==
    /\ logger.op = "Init"
    /\ levelVar' = Store(levelVar, l)
    /\ written' = written \cup {l}
    /\ emitted' = NoLog
    /\ UNCHANGED <<config, merged, logger, accessors>>
    /\ UNCHANGED <<handlerVars, libVars>>

\* logger.Log(ctx, level, ...) on the logger that Init returned.
CallLog(level) ==
    /\ logger.op = "Init"
    /\ logger.err = NoError
    /\ ~logger.panicked
    /\ emitted' = [op |-> "Log", level |-> level,
                   sinks |-> Emits(logger.handler, level, levelVar)]
    /\ UNCHANGED <<config, merged, levelVar, written, logger, accessors>>
    /\ UNCHANGED <<handlerVars, libVars>>

\* A goroutine of the level tests: levelVar.Set(levels[j%len(levels)]),
\* then levelVar.Level(), then logger.Log at the level read.
AccessorSet(g) ==
    /\ logger.op = "Init"
    /\ logger.err = NoError
    /\ accessors[g].pc = "set"
    /\ levelVar' = Store(levelVar, LevelAt(accessors[g].j))
    /\ written' = written \cup {LevelAt(accessors[g].j)}
    /\ accessors' = [accessors EXCEPT ![g].pc = "read"]
    /\ UNCHANGED <<config, merged, logger, emitted>>
    /\ UNCHANGED <<handlerVars, libVars>>

AccessorLevel(g) ==
    /\ accessors[g].pc = "read"
    /\ accessors' = [accessors EXCEPT ![g].pc = "log", ![g].cur = Load(levelVar)]
    /\ UNCHANGED <<config, merged, levelVar, written, logger, emitted>>
    /\ UNCHANGED <<handlerVars, libVars>>

AccessorLog(g) ==
    /\ accessors[g].pc = "log"
    /\ emitted' = [op |-> "Log", level |-> accessors[g].cur,
                   sinks |-> Emits(logger.handler, accessors[g].cur, levelVar)]
    /\ accessors' = [accessors EXCEPT
          ![g].j = @ + 1,
          ![g].pc = IF accessors[g].j + 1 < MaxIterations THEN "set" ELSE "done"]
    /\ UNCHANGED <<config, merged, levelVar, written, logger>>
    /\ UNCHANGED <<handlerVars, libVars>>

\* lib.InitConfig() and lib.MergeConfig(override) by one caller; MergeConfig
\* reads the stored configuration, stores the merged one and returns it.
CallInitConfig ==
    /\ merged.op # "InitConfig"
    /\ config' = InitConfig
    /\ merged' = [NoStoreCall EXCEPT !.op = "InitConfig"]
    /\ UNCHANGED <<levelVar, written, logger, emitted, accessors>>
    /\ UNCHANGED <<handlerVars, libVars>>

CallMergeConfig(override) ==
    /\ merged.op \in {"InitConfig", "SetConfig"}
    /\ LET libConfig == MergeConfig(config, override) IN
       /\ config' = libConfig
       /\ merged' = [op |-> "MergeConfig", prev |-> config, override |-> override,
                     ret |-> libConfig]
    /\ UNCHANGED <<levelVar, written, logger, emitted, accessors>>
    /\ UNCHANGED <<handlerVars, libVars>>

\* The defaults, then one override merged into them.
NextConfig ==
    \/ CallInitConfig
    \/ /\ merged.op = "InitConfig"
       /\ \E override \in InitConfigs : CallMergeConfig(override)

SpecConfig == Init /\ [][NextConfig]_vars

\* lib.SetConfig(c) by the same caller.
CallSetConfig(c) ==
    /\ merged.op # "SetConfig"
    /\ config' = c
    /\ merged' = [NoStoreCall EXCEPT !.op = "SetConfig", !.override = c]
    /\ UNCHANGED <<levelVar, written, logger, emitted, accessors>>
    /\ UNCHANGED <<handlerVars, libVars>>

\* The stored configurations of the merge tests: nothing set, or every field
\* set with the booleans all false or all true.
BaseConfigs ==
    {ZeroConfig} \cup
    { [Level |-> Leveler(LevelInfo), Format |-> "json", DevMode |-> b,
       DevFlavor |-> "tint", OutputStream |-> "stdout", OtelTracingEnabled |-> b,
       OtelLoggerName |-> "base-logger", Output |-> "console",
       OtelServiceName |-> "base-service", SetAsDefault |-> b,
       ContextKeys |-> <<KeyStrA>>, ContextKeysDefault |-> DefaultInt] : b \in BOOLEAN }

\* The overrides of the merge tests: every field left at its zero value or
\* set, independently (the two names together).
OverrideConfigs ==
    { [Level |-> l, Format |-> f, DevMode |-> b[1], DevFlavor |-> df,
       OutputStream |-> os, OtelTracingEnabled |-> b[2], OtelLoggerName |-> names[1],
       Output |-> o, OtelServiceName |-> names[2], SetAsDefault |-> b[3],
       ContextKeys |-> ck, ContextKeysDefault |-> d] :
        l \in {NilLeveler, Leveler(LevelDebug)},
        f \in {"", "text"},
        df \in {"", "slogor"},
        os \in {"nil", "buf"},
        o \in {"", "otel"},
        names \in {<<"", "">>, <<"merged-logger", "merged-service">>},
        ck \in {<<>>, <<KeyStrB>>},
        d \in {NilValue, DefaultStr},
        b \in BOOLEAN \X BOOLEAN \X BOOLEAN }

\* A stored configuration, then one override merged into it.
NextMerge ==
    \/ /\ merged.op # "SetConfig"
       /\ \E c \in BaseConfigs : CallSetConfig(c)
    \/ /\ merged.op = "SetConfig"
       /\ \E override \in OverrideConfigs : CallMergeConfig(override)

SpecMerge == Init /\ [][NextMerge]_vars

\* One Init, then level changes and log calls by its caller.
NextInit ==
    \/ /\ logger.op = "none"
       /\ \E override \in InitConfigs, env \in Environments : CallInit(override, env)
    \/ \E l \in SetLevels : LevelSet(l)
    \/ \E level \in LogLevels : CallLog(level)

SpecInit == Init /\ [][NextInit]_vars

\* One Init, then goroutines that set and read the level concurrently.
NextLevel ==
    \/ /\ logger.op = "none"
       /\ \E override \in LevelTestConfigs :
             CallInit(override, [otel |-> TRUE, exporter |-> TRUE])
    \/ \E g \in Goroutines : AccessorSet(g)
    \/ \E g \in Goroutines : AccessorLevel(g)
    \/ \E g \in Goroutines : AccessorLog(g)

SpecLevel == Init /\ [][NextLevel]_vars

\* ------------------------------------------------------------- validation
\* The configurations Validate is called on: every combination of the fields
\* it looks at, set or unset.
ValidateConfigs ==
    { [ZeroConfig EXCEPT !.Level = l, !.Output = o, !.OtelLoggerName = names[1],
                         !.OtelServiceName = names[2], !.ContextKeys = ck,
                         !.ContextKeysDefault = d] :
        l \in {NilLeveler, NilLevelVar, Leveler(LevelInfo)},
        o \in {"", "console", "otel", "fanout"},
        names \in {"", "test-logger"} \X {"", "test-service"},
        ck \in {<<>>, <<KeyStrA>>},
        d \in {NilValue, DefaultStr} }

\* config.Validate() by a caller.
CallValidate(c) ==
    /\ validated' = [op |-> "Validate", arg |-> c, err |-> Validate(c)]
    /\ UNCHANGED <<handlerVars, orchVars, cleanupVars, storeVars>>

NextValidate == \E c \in ValidateConfigs : CallValidate(c)

SpecValidate == Init /\ [][NextValidate]_vars

\* ------------------------------------ concurrent calls on the store
\* The calls of the concurrency tests: GetConfig, InitConfig, SetConfig of
\* one of two configurations, MergeConfig of one of two overrides that set
\* different fields.
StoreCalls ==
    {[op |-> "GetConfig", arg |-> ZeroConfig], [op |-> "InitConfig", arg |-> ZeroConfig]}
    \cup {[op |-> "SetConfig", arg |-> c] :
            c \in {[InitConfig EXCEPT !.OtelLoggerName = "test-logger",
                                      !.OtelServiceName = "test-service"],
                   [InitConfig EXCEPT !.Level = Leveler(LevelWarn), !.Format = "text",
                                      !.Output = "fanout"]}}
    \cup {[op |-> "MergeConfig", arg |-> o] :
            o \in {[ZeroConfig EXCEPT !.Level = Leveler(LevelDebug)],
                   [ZeroConfig EXCEPT !.OtelLoggerName = "merged-logger",
                                      !.OtelServiceName = "merged-service"]}}

\* A goroutine starts its call: GetConfig and MergeConfig begin with the
\* read lock, SetConfig and InitConfig with the write lock.
GoStoreCall(g, call) ==
    /\ callers[g].pc = "idle"
    /\ callers' = [callers EXCEPT ![g] =
          [NoCaller EXCEPT !.op = call.op, !.arg = call.arg,
                           !.pc = IF call.op \in {"GetConfig", "MergeConfig"}
                                  THEN "rlock" ELSE "lock",
                           !.value = IF call.op = "InitConfig" THEN InitConfig
                                     ELSE call.arg]]
    /\ UNCHANGED <<config, mu, stores>>
    /\ UNCHANGED otherVars

\* GetConfig: globalConfigManager.mu.RLock()
MuRLock(g) ==
    /\ callers[g].pc = "rlock"
    /\ CanRLock(mu)
    /\ mu' = [mu EXCEPT !.readers = @ \cup {g}]
    /\ callers' = [callers EXCEPT ![g].pc = "read1"]
    /\ UNCHANGED <<config, stores>>
    /\ UNCHANGED otherVars

\* GetConfig: the first piece of the copy of globalConfigManager.config
ReadFirst(g) ==
    /\ callers[g].pc = "read1"
    /\ callers' = [callers EXCEPT ![g].pc = "read2",
                                  ![g].libConfig = CopyPiece(@, config, FirstPiece)]
    /\ UNCHANGED <<config, mu, stores>>
    /\ UNCHANGED otherVars

\* GetConfig: the rest of the copy, the deferred RUnlock and the return;
\* MergeConfig then merges the override into its copy and calls SetConfig.
ReadRest(g) ==
    /\ callers[g].pc = "read2"
    /\ mu' = [mu EXCEPT !.readers = @ \ {g}]
    /\ LET libConfig == CopyPiece(callers[g].libConfig, config, RestPiece) IN
       callers' = [callers EXCEPT ![g] =
          IF callers[g].op = "GetConfig"
          THEN [@ EXCEPT !.pc = "done", !.libConfig = libConfig, !.ret = libConfig]
          ELSE [@ EXCEPT !.pc = "lock", !.libConfig = libConfig,
                         !.value = MergeConfig(libConfig, callers[g].arg)]]
    /\ UNCHANGED <<config, stores>>
    /\ UNCHANGED otherVars

\* SetConfig, InitConfig: globalConfigManager.mu.Lock()
MuLock(g) ==
    /\ callers[g].pc = "lock"
    /\ CanLock(mu)
    /\ mu' = [mu EXCEPT !.writer = g]
    /\ callers' = [callers EXCEPT ![g].pc = "write1"]
    /\ stores' = stores \cup {callers[g].value}
    /\ UNCHANGED config
    /\ UNCHANGED otherVars

\* SetConfig, InitConfig: the first piece of globalConfigManager.config = config
WriteFirst(g) ==
    /\ callers[g].pc = "write1"
    /\ config' = CopyPiece(config, callers[g].value, FirstPiece)
    /\ callers' = [callers EXCEPT ![g].pc = "write2"]
    /\ UNCHANGED <<mu, stores>>
    /\ UNCHANGED otherVars

\* SetConfig, InitConfig: the rest of the assignment, the deferred Unlock and
\* the return; MergeConfig returns the configuration it stored.
WriteRest(g) ==
    /\ callers[g].pc = "write2"
    /\ config' = CopyPiece(config, callers[g].value, RestPiece)
    /\ mu' = [mu EXCEPT !.writer = 0]
    /\ callers' = [callers EXCEPT ![g].pc = "done",
                                  ![g].ret = IF callers[g].op = "MergeConfig"
                                             THEN callers[g].value ELSE @]
    /\ UNCHANGED stores
    /\ UNCHANGED otherVars

\* Goroutines that each make one call on the store, in any interleaving.
NextStore ==
    \E g \in Goroutines :
        \/ /\ callers[g].pc = "idle"
           /\ \E call \in StoreCalls : GoStoreCall(g, call)
        \/ MuRLock(g)
        \/ ReadFirst(g)
        \/ ReadRest(g)
        \/ MuLock(g)
        \/ WriteFirst(g)
        \/ WriteRest(g)

SpecStore == Init /\ [][NextStore]_vars

\* ------------------------------------------- RegisterCleanup and Shutdown
\* A goroutine calls RegisterCleanup(cleanup) with a cleanup function of the
\* given kind.
CallRegisterCleanup(g, kind) ==
    /\ workers[g].stack = <<>>
    /\ registered + Waiting("RegisterCleanup") < MaxCleanups
    /\ workers' = Push(g, Frame("RegisterCleanup", kind))
    /\ UNCHANGED <<cleanupFuncs, cleanupMu, invoked, registered, shutdowns>>
    /\ UNCHANGED <<handlerVars, orchVars, validated, storeVars>>

\* A goroutine calls Shutdown().
CallShutdown(g) ==
    /\ workers[g].stack = <<>>
    /\ shutdowns + Waiting("Shutdown") < MaxShutdowns
    /\ workers' = Push(g, Frame("Shutdown", ""))
    /\ UNCHANGED <<cleanupFuncs, cleanupMu, invoked, registered, shutdowns>>
    /\ UNCHANGED <<handlerVars, orchVars, validated, storeVars>>

\* globalConfigManager.cleanupMu.Lock() in either function; Shutdown then
\* starts its loop at the last element.
LockCleanupMu(g) ==
    /\ workers[g].stack # <<>>
    /\ Top(g).pc = "lock"
    /\ cleanupMu = 0
    /\ cleanupMu' = g
    /\ IF Top(g).op = "Shutdown"
       THEN /\ workers' = [workers EXCEPT ![g] =
                              SetTop(@, [Top(g) EXCEPT !.pc = "loop",
                                                       !.i = Len(cleanupFuncs),
                                                       !.seen = Len(cleanupFuncs),
                                                       !.call = shutdowns + 1])]
            /\ shutdowns' = shutdowns + 1
       ELSE /\ workers' = [workers EXCEPT ![g] = SetTop(@, [Top(g) EXCEPT !.pc = "append"])]
            /\ UNCHANGED shutdowns
    /\ UNCHANGED <<cleanupFuncs, invoked, registered>>
    /\ UNCHANGED <<handlerVars, orchVars, validated, storeVars>>

\* RegisterCleanup: the append, the deferred Unlock and the return.
RegisterAppend(g) ==
    /\ AtPc(g, "RegisterCleanup", "append")
    /\ cleanupFuncs' = Append(cleanupFuncs,
                              Cleanup(registered + 1, Top(g).kind, shutdowns))
    /\ registered' = registered + 1
    /\ cleanupMu' = 0
    /\ workers' = [workers EXCEPT ![g] =
                      [Pop(@) EXCEPT !.ret = [NoReturn EXCEPT !.op = "RegisterCleanup"]]]
    /\ UNCHANGED <<invoked, shutdowns>>
    /\ UNCHANGED <<handlerVars, orchVars, validated, storeVars>>

\* Shutdown: one iteration calls cleanupFuncs[i](); a cleanup function that
\* calls RegisterCleanup or Shutdown enters that function on the same
\* goroutine.
ShutdownInvoke(g) ==
    /\ AtPc(g, "Shutdown", "loop")
    /\ Top(g).i >= 1
    /\ LET cleanup == cleanupFuncs[CleanupIndex(Top(g).i, Len(cleanupFuncs))]
           running == SetTop(workers[g], [Top(g) EXCEPT !.pc = "inCleanup"])
       IN  /\ invoked' = Append(invoked, [id |-> cleanup.id, kind |-> cleanup.kind,
                                          epoch |-> cleanup.epoch, call |-> Top(g).call])
           /\ workers' = [workers EXCEPT ![g] =
                 IF cleanup.kind = "register"
                 THEN [running EXCEPT !.stack = Append(@, Frame("RegisterCleanup", "ok"))]
                 ELSE IF cleanup.kind = "shutdown"
                 THEN [running EXCEPT !.stack = Append(@, Frame("Shutdown", ""))]
                 ELSE running]
    /\ UNCHANGED <<cleanupFuncs, cleanupMu, registered, shutdowns>>
    /\ UNCHANGED <<handlerVars, orchVars, validated, storeVars>>

\* Shutdown: the cleanup function returns; its error, if any, is collected.
CleanupReturns(g) ==
    /\ AtPc(g, "Shutdown", "inCleanup")
    /\ LET cleanup == cleanupFuncs[CleanupIndex(Top(g).i, Len(cleanupFuncs))]
           err == IF cleanup.kind = "err" THEN PlainError("cleanup") ELSE NoError
       IN  workers' = [workers EXCEPT ![g] =
               SetTop(@, [Top(g) EXCEPT !.pc = "loop",
                                        !.i = AfterCleanup(@, err),
                                        !.errors = IF err # NoError
                                                   THEN Append(@, cleanup.id) ELSE @])]
    /\ UNCHANGED <<cleanupFuncs, cleanupMu, invoked, registered, shutdowns>>
    /\ UNCHANGED <<handlerVars, orchVars, validated, storeVars>>

\* Shutdown: after the loop the registry is cleared, the combined error or
\* nil is returned and the deferred Unlock runs.
ShutdownReturn(g) ==
    /\ AtPc(g, "Shutdown", "loop")
    /\ Top(g).i < 1
    /\ cleanupFuncs' = Cleared(cleanupFuncs)
    /\ cleanupMu' = 0
    /\ workers' = [workers EXCEPT ![g] =
          [Pop(@) EXCEPT !.ret = [op |-> "Shutdown", call |-> Top(g).call,
                                  seen |-> Top(g).seen,
                                  err |-> IF Len(Top(g).errors) > 0
                                          THEN ShutdownError(Top(g).errors)
                                          ELSE NoError]]]
    /\ UNCHANGED <<invoked, registered, shutdowns>>
    /\ UNCHANGED <<handlerVars, orchVars, validated, storeVars>>

\* The steps inside RegisterCleanup and Shutdown.
CleanupStep(g) ==
    \/ LockCleanupMu(g)
    \/ RegisterAppend(g)
    \/ ShutdownInvoke(g)
    \/ CleanupReturns(g)
    \/ ShutdownReturn(g)

\* Goroutines that register cleanup functions which return nil or an error,
\* and call Shutdown, in any interleaving.
NextShutdown ==
    \E g \in Goroutines :
        \/ \E kind \in {"ok", "err"} : CallRegisterCleanup(g, kind)
        \/ CallShutdown(g)
        \/ CleanupStep(g)

SpecShutdown == Init /\ [][NextShutdown]_vars

\* The same goroutines with cleanup functions that return nil, call
\* RegisterCleanup or call Shutdown.  A goroutine inside RegisterCleanup or
\* Shutdown that can take its next step eventually takes it (the scheduler
\* runs every runnable goroutine); nothing obliges a goroutine to start a call.
NextReentrant ==
    \E g \in Goroutines :
        \/ \E kind \in {"ok", "register", "shutdown"} : CallRegisterCleanup(g, kind)
        \/ CallShutdown(g)
        \/ CleanupStep(g)

SpecReentrant ==
    /\ Init
    /\ [][NextReentrant]_vars
    /\ \A g \in Goroutines : WF_vars(CleanupStep(g))

\* ------------------------------------------------- vocabulary of the claims
\* The call in last is a returned Handle, and what it was called with.
Returned == last.op = "Handle"
LastH == handlers[last.h]
LastKeys == KeysOf(LastH)
LastDefault == LastH.ContextKeysDefault
LastInner == LastH.innerHandler

\* The wrapped handler was reached, and the record it received.
Delivered == Returned /\ last.out.calls # <<>>
Got == last.out.calls[1].record
Appended == SubSeq(Got.attrs, Len(last.record.attrs) + 1, Len(Got.attrs))

\* What a context holds for a key, read off its bindings.
BoundAt(ctx, key) == {j \in DOMAIN ctx.bindings : ctx.bindings[j].key = key}
Contains(ctx, key) == BoundAt(ctx, key) # {}
Innermost(S) == CHOOSE x \in S : \A y \in S : y <= x
ValueIn(ctx, key) ==
    IF Contains(ctx, key) THEN ctx.bindings[Innermost(BoundAt(ctx, key))].val ELSE NilValue

\* Key i of the last call gives an attribute; its place among the appended ones.
HasValue(i) == ValueIn(last.ctx, LastKeys[i]) # NilValue
Yields(i) == HasValue(i) \/ LastDefault # NilValue
Slot(i) == Cardinality({j \in 1..i : Yields(j)})

\* A slog value carries x: the same payload, a number still a number, any
\* other type unchanged.
Numeric(t) == t \in SignedInts \cup UnsignedInts \cup Floats
Carries(sv, x) ==
    /\ sv.any.v = x.v
    /\ IF Numeric(x.t) THEN Numeric(sv.any.t) ELSE sv.any.t = x.t

\* The 64-bit type of a numeric type's family; other types are themselves.
Wide(t) ==
    IF t \in SignedInts THEN "int64"
    ELSE IF t \in UnsignedInts THEN "uint64"
    ELSE IF t \in Floats THEN "float64" ELSE t

\* A fault during augmentation: the context's Value method panics.
AugmentationFault == LastKeys # <<>> /\ last.ctx.kind = "custom"

\* ------------------------------------------------------------------ claims

\* C1: every Handle call returns to its caller, with nil or an error; no panic
\* leaves it, whether raised by the context lookup or by the wrapped handler.
C1_NoPanicEscapes ==
    Returned => /\ ~last.out.panicked
                /\ last.out.err.tag \in {"nil", "sink", "panic in Handle"}

C1_Witness ==
    /\ Returned
    /\ LastInner.kind = "panic"
    /\ Len(last.out.calls) = 1
    /\ last.out.err = [tag |-> "panic in Handle", cause |-> "sink fault"]

C3_ExactDynamicType ==
    Delivered =>
      \A i \in DOMAIN LastKeys :
        HasValue(i) =>
          \E p \in DOMAIN Appended :
             /\ Appended[p].key = Sprintf(LastKeys[i])
             /\ Appended[p].value.any = ValueIn(last.ctx, LastKeys[i])

\* C3 amended: the attribute at the key's place is named by the key's printed
\* form and holds the context value, never the default: same payload, same
\* dynamic type, except that a number is carried as the 64-bit type of its
\* family.
C3_ValueFidelity ==
    Delivered =>
      \A i \in DOMAIN LastKeys :
        HasValue(i) =>
          LET val == ValueIn(last.ctx, LastKeys[i]) IN
          /\ Slot(i) \in DOMAIN Appended
          /\ Appended[Slot(i)].key = Sprintf(LastKeys[i])
          /\ Appended[Slot(i)].value.any = [t |-> Wide(val.t), v |-> val.v]
          /\ Len(Appended) = Slot(Len(LastKeys))

C3_Witness ==
    /\ Delivered
    /\ Len(LastKeys) = 2
    /\ ValueIn(last.ctx, LastKeys[1]) = IntValue
    /\ ~HasValue(2)
    /\ LastDefault = DefaultStr
    /\ Appended[1].value = [kind |-> "Int64", any |-> [t |-> "int64", v |-> "42"]]
    /\ Appended[2].value = [kind |-> "String", any |-> DefaultStr]

\* The context without any binding of key.
RECURSIVE Unbind(_, _)
Unbind(bindings, key) ==
    IF bindings = <<>> THEN <<>>
    ELSE IF Head(bindings).key = key THEN Unbind(Tail(bindings), key)
    ELSE <<Head(bindings)>> \o Unbind(Tail(bindings), key)

Without(ctx, key) == [ctx EXCEPT !.bindings = Unbind(@, key)]

\* C4: a configured key bound to nil in the context is handled as a key the
\* context does not contain: the default is appended at the key's place when
\* there is one, nothing when there is none, and the call delivers the record
\* and returns the error it would with the key's bindings removed.
C4_NilValueAsMissing ==
    Delivered =>
      \A i \in DOMAIN LastKeys :
        (Contains(last.ctx, LastKeys[i]) /\ ~HasValue(i)) =>
          /\ LastDefault # NilValue =>
               /\ Slot(i) \in DOMAIN Appended
               /\ Appended[Slot(i)].key = Sprintf(LastKeys[i])
               /\ Carries(Appended[Slot(i)].value, LastDefault)
          /\ LastDefault = NilValue =>
               Len(Appended) = Cardinality({j \in DOMAIN LastKeys : HasValue(j)})
          /\ LET other == Handle(LastH, Without(last.ctx, LastKeys[i]), last.record) IN
             /\ other.err = last.out.err
             /\ Len(other.calls) = 1
             /\ other.calls[1].record = Got

C4_Witness ==
    /\ Delivered
    /\ Len(LastKeys) = 1
    /\ Len(last.ctx.bindings) = 2
    /\ last.ctx.bindings[1] = [key |-> LastKeys[1], val |-> StrValue]
    /\ last.ctx.bindings[2] = [key |-> LastKeys[1], val |-> NilValue]
    /\ LastDefault = DefaultInt
    /\ Len(Appended) = 1
    /\ Appended[1].value.any.v = "7"

\* The attribute key i of the last call gives: its name and its payload.
IsAttrOf(attr, i) ==
    /\ attr.key = Sprintf(LastKeys[i])
    /\ attr.value.any.v = (IF HasValue(i) THEN ValueIn(last.ctx, LastKeys[i]).v
                           ELSE LastDefault.v)

\* C5: context attributes come in the configured key order: of two configured
\* keys that both give an attribute, the earlier key's attribute precedes the
\* later key's in the delivered record.
C5_KeyOrder ==
    Delivered =>
      \A i, j \in DOMAIN LastKeys :
        (i < j /\ Yields(i) /\ Yields(j)) =>
          \E p, q \in DOMAIN Appended :
             /\ p < q
             /\ IsAttrOf(Appended[p], i)
             /\ IsAttrOf(Appended[q], j)

C5_Witness ==
    /\ Delivered
    /\ LastKeys = <<KeyStrB, KeyTypedA>>
    /\ ~HasValue(1)
    /\ HasValue(2)
    /\ LastDefault = DefaultStr
    /\ Appended[1].key = "b"
    /\ Appended[2].key = "a"

\* C6: a Handle call with a nil context is a Handle call with the background
\* context: the wrapped handler receives a non-nil context, every configured
\* key is treated as missing, and the call returns nil when the wrapped
\* handler does.
C6_NilContext ==
    (Returned /\ last.ctx = NilCtx) =>
      /\ last.out = Handle(LastH, Background, last.record)
      /\ LastInner.kind # "nil" =>
           /\ Len(last.out.calls) = 1
           /\ last.out.calls[1].ctx = Background
           /\ Len(Appended) = (IF LastDefault = NilValue THEN 0 ELSE Len(LastKeys))
           /\ \A p \in DOMAIN Appended :
                 /\ Appended[p].key = Sprintf(LastKeys[p])
                 /\ Carries(Appended[p].value, LastDefault)
      /\ LastInner.kind = "ok" => last.out.err = NilErr

C6_Witness ==
    /\ Returned
    /\ last.ctx = NilCtx
    /\ LastInner.kind = "ok"
    /\ Len(LastKeys) = 2
    /\ LastDefault = DefaultStr
    /\ last.out.err = NilErr
    /\ Len(Appended) = 2

\* C7: when augmentation raises no fault, the wrapped handler's Handle is
\* invoked exactly once, with the record that has one more attribute per key
\* that gives one, and what it returns (nil or its error) is what Handle
\* returns, unwrapped.
C7_DelegateOnce ==
    (Returned /\ ~AugmentationFault /\ LastInner.kind \in {"ok", "err"}) =>
      /\ Len(last.out.calls) = 1
      /\ Len(Got.attrs) = Len(last.record.attrs) + Slot(Len(LastKeys))
      /\ last.out.err = (IF LastInner.kind = "ok" THEN NilErr ELSE SinkErr)

C7_Witness ==
    /\ Returned
    /\ LastInner.kind = "err"
    /\ last.out.err = SinkErr
    /\ Len(last.out.calls) = 1
    /\ Len(Appended) = 2

\* C8: the delivered record is the input record with attributes appended: the
\* level, the message and the input attributes are unchanged and in place,
\* every further attribute is named by a configured key, at most one per key,
\* and with no key configured the delivered record is the input record.
C8_AppendOnly ==
    Delivered =>
      /\ Got.level = last.record.level
      /\ Got.msg = last.record.msg
      /\ Len(Got.attrs) >= Len(last.record.attrs)
      /\ SubSeq(Got.attrs, 1, Len(last.record.attrs)) = last.record.attrs
      /\ Len(Appended) <= Len(LastKeys)
      /\ \A p \in DOMAIN Appended :
            \E i \in DOMAIN LastKeys : Appended[p].key = Sprintf(LastKeys[i])
      /\ LastKeys = <<>> => Got = last.record

C8_Witness ==
    /\ Delivered
    /\ last.record.attrs = <<PreAttrA, PreAttrZ>>
    /\ Len(LastKeys) = 2
    /\ Len(Got.attrs) = 4
    /\ Got.attrs[1] = PreAttrA
    /\ Got.attrs[2] = PreAttrZ

\* The last call is a WithAttrs / WithGroup that returned.
Derived == last.op \in {"WithAttrs", "WithGroup"} /\ ~last.out.panicked

\* What the wrapped handler has bound after the last WithAttrs / WithGroup.
BoundBy(op) ==
    IF op = "WithAttrs" THEN [op |-> "attrs", attrs |-> StaticAttrs, name |-> ""]
    ELSE [op |-> "group", attrs |-> <<>>, name |-> GroupName]

\* C9: WithAttrs / WithGroup return a new handler that wraps the wrapped
\* handler's WithAttrs / WithGroup result and has the receiver's key slice and
\* default; after any chain of such calls every handler has the first one's
\* keys and default, and a Handle call on it has the outcome the same call
\* has on the first one.
C9_CompositionPreserves ==
    /\ Derived =>
         LET r == handlers[last.ret]
             recv == handlers[last.h]
         IN /\ last.ret = Len(handlers)
            /\ last.ret # last.h
            /\ r.keys = recv.keys
            /\ r.ContextKeysDefault = recv.ContextKeysDefault
            /\ r.innerHandler.kind = recv.innerHandler.kind
            /\ r.innerHandler.level = recv.innerHandler.level
            /\ r.innerHandler.bound = Append(recv.innerHandler.bound, BoundBy(last.op))
    /\ \A i \in DOMAIN handlers :
         /\ handlers[i].keys = handlers[1].keys
         /\ KeysOf(handlers[i]) = KeysOf(handlers[1])
         /\ handlers[i].ContextKeysDefault = handlers[1].ContextKeysDefault
    /\ Returned => last.out = Handle(handlers[1], last.ctx, last.record)

C9_Witness ==
    /\ Delivered
    /\ last.h = 3
    /\ Len(LastInner.bound) = 2
    /\ LastInner.bound[1].op = "attrs"
    /\ LastInner.bound[2].op = "group"
    /\ Len(LastKeys) = 2
    /\ HasValue(1)
    /\ ~HasValue(2)
    /\ LastDefault = DefaultStr
    /\ Len(Appended) = 2

\* C10: WithAttrs / WithGroup leave their receiver as it was: every handler
\* that exists before the call has the same wrapped handler, key slice, keys
\* and default after it, and its Handle and Enabled give the same outcomes.
C10_ReceiverUnchanged ==
    [][ last'.op \in {"WithAttrs", "WithGroup"} =>
          \A i \in DOMAIN handlers :
             /\ i \in DOMAIN handlers'
             /\ handlers'[i] = handlers[i]
             /\ KeysOf(handlers[i])' = KeysOf(handlers[i])
             /\ \A ctx \in ComposeContexts :
                   Handle(handlers[i], ctx, ComposeRecord)'
                     = Handle(handlers[i], ctx, ComposeRecord)
             /\ \A level \in Levels :
                   Enabled(handlers[i], Background, level)'
                     = Enabled(handlers[i], Background, level) ]_vars

C10_Witness ==
    /\ Derived
    /\ last.op = "WithAttrs"
    /\ last.h = 1
    /\ last.ret = 3
    /\ Len(handlers[1].innerHandler.bound) = 0
    /\ Len(handlers[3].innerHandler.bound) = 1

\* C11: a panic recovered inside one Handle call stays in that call: every
\* later Handle call on the same handler has the outcome that the same call
\* has on a handler built from the same arguments and never called, and the
\* handler itself is still the value that was built.
C11_FaultLocal ==
    (Returned /\ last.h = 1 /\ 1 \in faulted /\ Len(handlers) = 2) =>
       /\ last.out = Handle(handlers[2], last.ctx, last.record)
       /\ handlers[1] = handlers[2]

C11_Witness ==
    /\ Returned
    /\ last.h = 1
    /\ 1 \in faulted
    /\ Len(handlers) = 2
    /\ LastInner.kind = "ok"
    /\ Len(LastKeys) = 2
    /\ last.out.err = NilErr
    /\ Len(last.out.calls) = 1
    /\ Len(Appended) = 2

\* C13: the constructor returns a handler for every argument, a nil wrapped
\* handler, an empty or nil key slice and a nil default included, and stores
\* the arguments as given; Handle on a handler whose wrapped handler is nil
\* returns an error to its caller instead of panicking.
C13_NilTolerant ==
    /\ last.op = "New" =>
          /\ ~last.out.panicked
          /\ last.ret \in DOMAIN handlers
          /\ handlers[last.ret].innerHandler \in InnerHandlers
          /\ KeysOf(handlers[last.ret]) \in KeySets
          /\ handlers[last.ret].ContextKeysDefault \in Defaults
    /\ (Returned /\ LastInner = NilHandler) =>
          /\ ~last.out.panicked
          /\ last.out.err # NilErr
          /\ last.out.calls = <<>>

C13_Witness ==
    /\ Returned
    /\ LastInner = NilHandler
    /\ LastKeys = <<>>
    /\ LastDefault = NilValue
    /\ last.out.err = [tag |-> "panic in Handle", cause |-> "nil pointer dereference"]

\* C12: goroutines inside Handle on one shared handler, each with its own
\* context and record: no step of theirs changes the handler or its key
\* slice, and whatever the interleaving each call ends as the same call made
\* alone would: the record it delivers holds the attributes from its own
\* context, or the defaults, after the attributes of its own record.
C12_ConcurrentHandle ==
    /\ [][goroutines' # goroutines => (handlers' = handlers /\ heap' = heap)]_vars
    /\ [](\A g \in Goroutines :
            goroutines[g].pc = "done" =>
               goroutines[g].out = Handle(handlers[1], goroutines[g].arg, RecordOf(g)))

C12_Witness ==
    /\ \A g \in {1, 2} : goroutines[g].pc = "done" /\ Len(goroutines[g].out.calls) = 1
    /\ Len(KeysOf(handlers[1])) = 2
    /\ handlers[1].ContextKeysDefault = DefaultStr
    /\ KeysOf(handlers[1])[1] = KeyStrA
    /\ \A g \in {1, 2} :
          /\ goroutines[g].arg = OwnCtx(g)
          /\ Len(goroutines[g].out.calls[1].record.attrs) = 3
          /\ goroutines[g].out.calls[1].record.attrs[2].value.any.v = ToString(g)

\* The level the cell holds before any Set: the zero value before Init, the
\* configured level after it.
InitialLevel == IF logger.op = "Init" THEN config.Level.v ELSE LevelInfo
HasRead(g) == accessors[g].pc = "log" \/ accessors[g].j > 0

\* C14: with goroutines setting and reading the level in any interleaving,
\* the cell and every value read from it is the initial level or a level
\* that some Set call stored, never a mixture; when every goroutine is done
\* the cell holds the level of one of the Set calls.
C14_AtomicLevel ==
    /\ levelVar \in written \cup {InitialLevel}
    /\ \A g \in Goroutines : HasRead(g) => accessors[g].cur \in written \cup {InitialLevel}
    /\ (\A g \in Goroutines : accessors[g].pc = "done") =>
          /\ levelVar \in written
          /\ \E j \in 0..(MaxIterations - 1) : levelVar = LevelAt(j)

C14_Witness ==
    /\ \A g \in Goroutines : accessors[g].pc = "done"
    /\ InitialLevel = LevelError
    /\ accessors[1].cur = LevelDebug
    /\ levelVar = LevelAt(MaxIterations - 1)
    /\ written = {LevelDebug, LevelInfo}

\* A record was logged after a Set on the accessor, through a logger built
\* for the console without the development handlers.
LoggedAfterSet ==
    /\ emitted.op = "Log"
    /\ written # {}
    /\ config.Output = "console"
    /\ ~config.DevMode

\* C15 as stated: once Set(L) has returned, a record logged through the
\* logger that Init returned is emitted exactly when its level is at least
\* L, whatever the format (JSON, text, OTEL) and whether L is above or below
\* the level the logger was initialized with.
C15_SetGovernsEveryFormat ==
    LoggedAfterSet => ((emitted.sinks # {}) <=> (emitted.level >= levelVar))

C17_InitErrorShape ==
    (logger.op = "Init" /\ logger.err # NoError) =>
        /\ logger.err.type = "*InitError"
        /\ logger.err.Stage \in {"validation", "handler_creation", "otel_setup",
                                 "panic_recovery"}
        /\ Unwrap(logger.err) = logger.err.Cause
        /\ Unwrap(logger.err) # NoError
        /\ (logger.err.Stage = "validation") <=> (Validate(config) # NoError)
        /\ logger.err.Stage = "validation" =>
              /\ Unwrap(logger.err).type = "*ValidationError"
              /\ Unwrap(logger.err) = Validate(config)
              /\ Len(Unwrap(logger.err).Errors) > 0

C17_Witness ==
    /\ logger.op = "Init"
    /\ logger.err # NoError
    /\ logger.err.Stage = "validation"
    /\ Unwrap(logger.err) = ValidationError(<<"ContextKeysDefault">>)

ValidationFailed ==
    /\ logger.err # NoError
    /\ logger.err.type = "*InitError"
    /\ logger.err.Stage = "validation"
    /\ logger.err.Cause.type = "*ValidationError"
    /\ Len(logger.err.Cause.Errors) > 0

ViolatedRules(c) ==
    {f \in {"Level", "Output", "OtelLoggerName", "OtelServiceName",
            "ContextKeysDefault"} :
        \/ f = "Level" /\ c.Level = NilLeveler
        \/ f = "Output" /\ c.Output = ""
        \/ f = "OtelLoggerName" /\ c.Output \in {"otel", "fanout"}
                                /\ c.OtelLoggerName = ""
        \/ f = "OtelServiceName" /\ c.Output \in {"otel", "fanout"}
                                 /\ c.OtelServiceName = ""
        \/ f = "ContextKeysDefault" /\ c.ContextKeysDefault # NilValue
                                    /\ c.ContextKeys = <<>>}

\* C21: Validate returns a *ValidationError exactly when the configuration
\* violates at least one rule (nil Level; zero Output; OTEL or fanout output
\* with an empty logger name; the same with an empty service name;
\* ContextKeysDefault set while ContextKeys is empty), nil otherwise, and the
\* error lists one FieldError for each violated rule and no other.
C21_ValidateRules ==
    validated.op = "Validate" =>
        LET rules == ViolatedRules(validated.arg)
            err == validated.err
        IN  /\ (err # NoError) <=> (rules # {})
            /\ err # NoError =>
                  /\ err.type = "*ValidationError"
                  /\ Len(err.Errors) = Cardinality(rules)
                  /\ {err.Errors[i] : i \in 1..Len(err.Errors)} = rules

C21_Witness ==
    /\ validated.op = "Validate"
    /\ validated.arg.Level = NilLeveler
    /\ validated.arg.Output = "fanout"
    /\ validated.err = ValidationError(<<"Level", "OtelLoggerName", "OtelServiceName",
                                         "ContextKeysDefault">>)

\* The fields of Config that are not booleans, and the booleans.
ValueFields ==
    {"Level", "Format", "DevFlavor", "OutputStream", "OtelLoggerName", "Output",
     "OtelServiceName", "ContextKeys", "ContextKeysDefault"}
BoolFields == {"DevMode", "OtelTracingEnabled", "SetAsDefault"}

\* C22: MergeConfig(override) returns the configuration it stores; in it
\* every enum, pointer, string, slice and interface field has the override's
\* value when that value is not the zero value and the previously stored
\* value otherwise, and every boolean has the override's value, so a false
\* in the override replaces a true.
C22_MergeRules ==
    merged.op = "MergeConfig" =>
        /\ merged.ret = config
        /\ DOMAIN config = ValueFields \cup BoolFields
        /\ \A f \in ValueFields :
              config[f] = IF merged.override[f] # ZeroConfig[f]
                          THEN merged.override[f] ELSE merged.prev[f]
        /\ \A f \in BoolFields : config[f] = merged.override[f]

C22_Witness ==
    /\ merged.op = "MergeConfig"
    /\ merged.prev.DevMode /\ ~merged.override.DevMode /\ ~config.DevMode
    /\ merged.override.Format = "" /\ config.Format = "json"
    /\ merged.override.Level = Leveler(LevelDebug) /\ config.Level = Leveler(LevelDebug)
    /\ merged.override.ContextKeys = <<>> /\ config.ContextKeys = <<KeyStrA>>
    /\ config.ContextKeysDefault = DefaultStr

\* The cleanup functions that the Shutdown call numbered k has called, in
\* the order of the calls, and a Shutdown call being inside its loop.
InvokedBy(k) ==
    LET ByCall(e) == e.call = k IN SelectSeq(invoked, ByCall)
ShutdownRunning ==
    \E g \in Goroutines :
        /\ workers[g].stack # <<>>
        /\ workers[g].stack[1].op = "Shutdown"
        /\ workers[g].stack[1].pc \in {"loop", "inCleanup"}
ShutdownReturned(g) == workers[g].ret.op = "Shutdown"

\* C23: a Shutdown call invokes the registered cleanup functions in the
\* reverse of the order of registration: each function it calls was
\* registered immediately before the one it called just before, and when it
\* returns it has called as many functions as the registry held.
C23_ReverseOrder ==
    /\ \A k \in 1..shutdowns :
          \A j \in 1..(Len(InvokedBy(k)) - 1) :
              InvokedBy(k)[j + 1].id = InvokedBy(k)[j].id - 1
    /\ \A a, b \in 1..Len(invoked) :
          (a < b /\ invoked[a].call = invoked[b].call) => invoked[a].id > invoked[b].id
    /\ \A g \in Goroutines :
          ShutdownReturned(g) => Len(InvokedBy(workers[g].ret.call)) = workers[g].ret.seen

C23_Witness ==
    \E g \in Goroutines :
        /\ ShutdownReturned(g)
        /\ workers[g].ret.seen = 2
        /\ InvokedBy(workers[g].ret.call)[1].id = 2
        /\ InvokedBy(workers[g].ret.call)[2].id = 1

\* C24: a cleanup function that returns an error does not stop Shutdown:
\* every function the registry held is still called, and Shutdown returns a
\* non-nil combined error exactly when at least one of the functions it
\* called returned an error (nil for an empty registry).
C24_ErrorsCollected ==
    \A g \in Goroutines :
        ShutdownReturned(g) =>
            LET mine == InvokedBy(workers[g].ret.call)
                failed == {j \in 1..Len(mine) : mine[j].kind = "err"}
                err == workers[g].ret.err
            IN  /\ Len(mine) = workers[g].ret.seen
                /\ (err # NoError) <=> (failed # {})
                /\ err # NoError =>
                      /\ Len(err.errors) = Cardinality(failed)
                      /\ {err.errors[j] : j \in 1..Len(err.errors)}
                            = {mine[j].id : j \in failed}

C24_Witness ==
    \E g \in Goroutines :
        /\ ShutdownReturned(g)
        /\ workers[g].ret.seen = 2
        /\ workers[g].ret.err = ShutdownError(<<2>>)
        /\ InvokedBy(workers[g].ret.call)[1].kind = "err"
        /\ InvokedBy(workers[g].ret.call)[2].kind = "ok"

\* C25: in any interleaving of RegisterCleanup and Shutdown calls no
\* registration is lost and no cleanup function is called twice; a function
\* is called by the first Shutdown that takes the registry after its
\* registration; the registry holds no function from before a Shutdown that
\* has returned, and a Shutdown that finds it empty calls nothing and
\* returns nil.
C25_ExactlyOnce ==
    /\ \A a, b \in 1..Len(invoked) : invoked[a].id = invoked[b].id => a = b
    /\ {cleanupFuncs[j].id : j \in 1..Len(cleanupFuncs)}
          \cup {invoked[j].id : j \in 1..Len(invoked)} = 1..registered
    /\ \A j \in 1..Len(invoked) : invoked[j].call = invoked[j].epoch + 1
    /\ \A j \in 1..Len(cleanupFuncs) :
          cleanupFuncs[j].epoch = IF ShutdownRunning THEN shutdowns - 1 ELSE shutdowns
    /\ ~ShutdownRunning =>
          \A j \in 1..Len(cleanupFuncs) :
              \A k \in 1..Len(invoked) : invoked[k].id # cleanupFuncs[j].id
    /\ \A g \in Goroutines :
          (ShutdownReturned(g) /\ workers[g].ret.seen = 0) =>
              /\ workers[g].ret.err = NoError
              /\ InvokedBy(workers[g].ret.call) = <<>>

C25_Witness ==
    /\ shutdowns = 2
    /\ cleanupMu = 0
    /\ cleanupFuncs = <<>>
    /\ registered >= 2
    /\ Len(invoked) = registered
    /\ invoked[1].call = 1
    /\ invoked[Len(invoked)].call = 2
    /\ \E g \in Goroutines : ShutdownReturned(g) /\ workers[g].ret.call = 1
    /\ \E g \in Goroutines : ShutdownReturned(g) /\ workers[g].ret.call = 2

\* C30 as stated: a Shutdown call that has been started returns, whenever
\* each registered cleanup function returns when called by itself, also
\* when a cleanup function calls RegisterCleanup or Shutdown while it runs
\* and when several goroutines call Shutdown and RegisterCleanup.
C30_ShutdownTerminates ==
    \A g \in Goroutines :
        (workers[g].stack # <<>> /\ workers[g].stack[1].op = "Shutdown")
            ~> (workers[g].stack = <<>>)

\* A goroutine holds a complete copy made by GetConfig.
HasCopy(g) ==
    \/ callers[g].op = "GetConfig" /\ callers[g].pc = "done"
    \/ callers[g].op = "MergeConfig" /\ callers[g].pc \in {"lock", "write1", "write2", "done"}

\* C26: in any interleaving of concurrent GetConfig, SetConfig, InitConfig
\* (and MergeConfig) calls, the configuration a GetConfig returns is as a
\* whole the initial one or the one given to a single write, never a
\* mixture of the fields of two.
C26_NoTornRead ==
    \A g \in Goroutines :
        HasCopy(g) => callers[g].libConfig \in stores \cup {ZeroConfig}

C26_Witness ==
    \E g, h \in Goroutines :
        /\ callers[g].op = "GetConfig"
        /\ callers[g].pc = "done"
        /\ callers[g].ret # ZeroConfig
        /\ callers[g].ret.Format = "text"
        /\ callers[h].op = "SetConfig"
        /\ callers[h].pc = "done"

\* The stored configuration after the calls of the goroutines in the given
\* order, one at a time, and the orders of all goroutines.
RECURSIVE SerialConfig(_, _)
SerialConfig(order, n) ==
    IF n = 0 THEN ZeroConfig
    ELSE LET before == SerialConfig(order, n - 1)
             call == callers[order[n]]
         IN  IF call.op = "SetConfig" THEN call.arg
             ELSE IF call.op = "InitConfig" THEN InitConfig
             ELSE IF call.op = "MergeConfig" THEN MergeConfig(before, call.arg)
             ELSE before
Orders ==
    {order \in [1..MaxGoroutines -> Goroutines] :
        \A a, b \in 1..MaxGoroutines : order[a] = order[b] => a = b}

\* C27 as stated: when the concurrent MergeConfig, SetConfig, InitConfig
\* and GetConfig calls have all completed, the stored configuration is what
\* the same calls give when executed one at a time in some order.
C27_MergeAtomic ==
    (\A g \in Goroutines : callers[g].pc = "done") =>
        \E order \in Orders : config = SerialConfig(order, MaxGoroutines)

\* C29 as stated: a configured key whose value in the context is a nil
\* pointer of a concrete type is handled as a key the context does not
\* contain: the call delivers the record and returns the error it would with
\* the key's bindings removed (the default when one is configured, no
\* attribute otherwise).
C29_TypedNilAsMissing ==
    Delivered =>
      \A i \in DOMAIN LastKeys :
        ValueIn(last.ctx, LastKeys[i]) = PtrNilValue =>
          LET other == Handle(LastH, Without(last.ctx, LastKeys[i]), last.record) IN
          /\ other.err = last.out.err
          /\ Len(other.calls) = 1
          /\ other.calls[1].record = Got

\* C28 as stated: the key set of a handler is fixed at construction: no
\* step, be it the caller's assignment to the slice it passed to the
\* constructor or a call on the handler or on a handler derived from it,
\* changes the keys or their order that an existing handler uses in Handle,
\* and a derived handler uses the keys of the handler it was derived from.
C28_KeysFixed ==
    [][ /\ \A i \in DOMAIN handlers :
              i \in DOMAIN handlers' => KeysOf(handlers[i])' = KeysOf(handlers[i])
        /\ \A i \in DOMAIN handlers' :
              i \notin DOMAIN handlers => KeysOf(handlers[i])' = KeysOf(handlers[1])'
      ]_vars

====
